---- MODULE Spec2Model ----
(***************************************************************************)
(* A model of tooz's redis coordination driver (src/tooz/drivers/redis.py) *)
(* as a state machine: the redis store shared by the driver instances, the *)
(* per-driver single-worker executor, the group operations as the store    *)
(* commands their transaction bodies issue, the lock object, and the       *)
(* polling watcher.                                                        *)
(*                                                                         *)
(* The transaction bodies are run by redis-py's client.transaction(func,   *)
(* *watches): it WATCHes the keys, calls func(pipe) and then               *)
(* pipe.execute().  A pipeline that is watching and on which multi() was   *)
(* never called runs every command immediately, one round trip per        *)
(* command (which is why `if p.exists(...)` sees a real answer); none of   *)
(* the bodies calls p.multi(), so nothing is ever buffered and execute()   *)
(* on the empty command stack returns at once without sending EXEC.  Each  *)
(* store command of a body is therefore its own atomic step, and commands  *)
(* of other driver instances may fall between any two of them.             *)
(***************************************************************************)
EXTENDS Integers, Sequences, FiniteSets, Bags, TLC

\* ------------------------------------------------------------------ bounds
MaxQueue == 1        \* tasks a driver's executor holds (queued or running)
MaxOps == 4          \* group operations invoked in one behaviour
MaxPolls == 2        \* run_watchers calls in one behaviour
MaxHooks == 1        \* callbacks registered per driver, group and kind

Drivers == {"d1", "d2"}
LockObjs == {"l1", "l2"}         \* the lock objects get_lock can hand out
LockNames == {"a"}               \* the resource names they are asked for
\* A driver's executor has one worker.  _start on a running driver replaces
\* the executor while the replaced one still holds its work: each driver has
\* a second worker, that of the executor it abandoned.
Abandoned(d) == d \o "/old"
Workers == Drivers \cup {Abandoned(d) : d \in Drivers}
DriverOf(w) == CHOOSE d \in Drivers : w \in {d, Abandoned(d)}

Groups == {"g1"}
Watchers == {"d1"}               \* the drivers whose application watches
Lifers == {"d1"}                 \* the drivers that are started and stopped
LifeLocks == {"l1"}              \* the lock objects of those drivers
MemberIds == {"m1", "m2"}
CapsIn == {"", "c1"}            \* capability payloads (b"" is the default)

None == "None"
NoCaps == "-"

\* ------------------------------------------------------- program constants
_GROUP_EXISTS == "__created__"
_NAMESPACE_SEP == ":"
_namespace == "_tooz"
_group_prefix == <<_namespace, "_group">>
_groups == <<_namespace, "_groups">>

\* ------------------------------------------------------------------- codec
\* msgpack.dumps / msgpack.loads: the stored value is a tagged blob, not the
\* payload itself.
_dumps(data) == <<"msgpack", data>>
_loads(blob) == IF blob[1] = "msgpack" THEN blob[2] ELSE "ToozError"

NoneBlob == <<"nil", None>>
SentinelValue == <<"raw", "1">>

_encode_member_id(member_id) ==
    IF member_id = _GROUP_EXISTS THEN "ValueError" ELSE member_id
_decode_member_id(member_id) == member_id
_encode_group_id(group_id) == <<_group_prefix, _NAMESPACE_SEP, group_id>>

Fields == MemberIds \cup {_GROUP_EXISTS}
GroupKeys == {_encode_group_id(g) : g \in Groups}

\* ------------------------------------------------------------------- state
VARIABLES
    hashes,          \* store: hash key -> field -> value (NoneBlob: no field)
    groups_reg,      \* store: the registry set self._groups, as a bag
    member_id,       \* driver -> its member id (constructor argument)
    client,          \* driver -> self._client (None or "client")
    executor,        \* driver -> self._executor: None, "executor", or
                     \* "shutdown" once its shutdown() has been called
    started,         \* driver -> self._started
    queue,           \* worker -> its executor's FIFO work queue
    run,             \* worker -> the task it is running, and where
    joined_groups,   \* driver -> self._joined_groups
    last,            \* the future finished, or the call refused, by the step
                     \* just taken (NoOutcome after any other step)
    nops,            \* operations invoked so far
    createdOk,       \* group -> number of create_group calls that succeeded
    joinedOk,        \* group, member id -> join_group calls that succeeded
                     \* since the last leave_group that did
    everJoined,      \* group -> the member ids whose join ever succeeded
    capsOk           \* group, member id -> the capabilities of its last
                     \* successful join_group or update_capabilities

ghosts == <<createdOk, joinedOk, everJoined, capsOk>>

gvars == <<hashes, groups_reg, member_id, client, executor, started, queue,
           run, joined_groups, last, nops, ghosts>>

VARIABLES
    leases,          \* store: lock name -> the token it holds and its age
    lock_coord,      \* lock object -> the driver that made it (None: not yet)
    lock_name,       \* lock object -> self._name
    lock_acquired,   \* lock object -> self._acquired
    lock_token,      \* lock object -> the token of its redis lock (or None)
    lock_wait,       \* lock object -> the blocking acquire it waits in
    acquired_locks,  \* driver -> self._acquired_locks
    lockev,          \* what the lock call of the step just taken did
    hbev,            \* what the driver heartbeat of the step just taken did
    holds,           \* lock object -> acquire returned true and no release
                     \* has returned true since
    everExpired      \* lock name -> a lease on it has expired at some time

lvars == <<leases, lock_coord, lock_name, lock_acquired, lock_token,
           lock_wait, acquired_locks, lockev, hbev, holds, everExpired>>

VARIABLES
    group_members,     \* driver -> group -> self._group_members[group]
    hooks_join_group,  \* driver -> group -> callbacks in _hooks_join_group
    hooks_leave_group, \* driver -> group -> callbacks in _hooks_leave_group
    wpc,               \* driver -> where its caller is inside a watch_*_group
                       \* or run_watchers call
    fut,               \* driver -> the finished future that caller waits on
    npolls,            \* run_watchers calls so far
    wev,               \* the callbacks the step just taken invoked
    observed,          \* driver -> the membership in the store when the
                       \* get_members its caller waits on read it
    polled,            \* driver -> group -> the membership in the store at
                       \* the driver's latest poll of the group
    regsince,          \* driver -> group -> a watch_*_group registration
                       \* has completed since that poll
    regstable          \* driver -> group -> the driver has begun a
                       \* registration since its latest poll of the group,
                       \* and no member has joined or left the group since
                       \* that registration began

wvars == <<group_members, hooks_join_group, hooks_leave_group, wpc, fut,
           npolls, wev, observed, polled, regsince, regstable>>

VARIABLES
    spc              \* driver -> where its caller is inside a stop() call

vars == <<gvars, lvars, wvars, spc>>

\* ------------------------------------------------------ the store commands
\* EXISTS key: redis deletes a hash when its last field goes, so a key exists
\* exactly when it holds a field.
exists(key) == \E f \in Fields : hashes[key][f] # NoneBlob
hexists(key, field) == hashes[key][field] # NoneBlob
hget(key, field) == hashes[key][field]
hkeys(key) == {f \in Fields : hashes[key][f] # NoneBlob}
\* HSET answers 1 for a new field and 0 for a field it overwrote; it writes
\* the value in both cases.
hset_reply(key, field) == IF hexists(key, field) THEN 0 ELSE 1
hset(key, field, value) == [hashes EXCEPT ![key][field] = value]
\* HDEL answers the number of fields it removed.
hdel_reply(key, field) == IF hexists(key, field) THEN 1 ELSE 0
hdel(key, field) == [hashes EXCEPT ![key][field] = NoneBlob]
\* SADD adds a member the set does not hold yet; SMEMBERS lists the set.
sadd(reg, x) == IF BagIn(x, reg) THEN reg ELSE reg (+) SetToBag({x})
smembers(reg) == reg

\* --------------------------------------------------------- tasks, futures
\* waited: the caller that submitted the task is blocked in get() on its
\* future (the watcher's calls are; the other operations hand the future out).
Task(op, g, caps, m) ==
    [op |-> op, g |-> g, caps |-> caps, m |-> m, waited |-> FALSE]
NoTask == Task("none", None, NoCaps, None)
Waited(t) == [t EXCEPT !.waited = TRUE]
Idle == [pc |-> "idle", task |-> NoTask]
At(pc, t) == [pc |-> pc, task |-> t]

\* What a finished future holds (exc = None: the body returned), or what a
\* call raised before any work was submitted (submitted = FALSE).
Outcome(d, t, submitted, exc, members, value, groups) ==
    [d |-> d, task |-> t, submitted |-> submitted, exc |-> exc,
     members |-> members, value |-> value, groups |-> groups]
Raised(d, t, exc) == Outcome(d, t, FALSE, exc, {}, NoCaps, EmptyBag)
Failed(d, t, exc) == Outcome(d, t, TRUE, exc, {}, NoCaps, EmptyBag)
Returned(d, t) == Outcome(d, t, TRUE, None, {}, NoCaps, EmptyBag)
NoOutcome == Raised(None, NoTask, None)

\* _translate_failures: redis' own exceptions become tooz's, the rest pass.
_translate_failures(exc) ==
    CASE exc \in {"ConnectionError", "TimeoutError"} -> "ToozConnectionError"
      [] exc = "RedisError" -> "ToozError"
      [] OTHER -> exc

\* RedisFutureResult.get on a finished future: what the caller sees raised.
get(_fut) ==
    IF _fut.exc = "futures.TimeoutError" THEN "OperationTimedOut"
    ELSE _translate_failures(_fut.exc)

\* RedisLock.__init__: "%s_%s_lock" % (coord.namespace, name)
RedisLock_name(name) == <<_namespace, name, "lock">>
LockKeys == {RedisLock_name(n) : n \in LockNames}
NoKey == <<>>

\* A lease: the token the lock key holds (here the lock object that wrote
\* it: every acquire writes a fresh uuid, and a lock object remembers only
\* its newest) and whether its timeout is about to run out.
Lease(token, age) == [token |-> token, age |-> age]
NoLease == Lease(None, 0)

\* What a call on a lock object did: the store commands it sent, what it
\* returned or raised, and whether it slept waiting for the lock.
LockEvent(l, op, arg, ret, cmds, slept) ==
    [l |-> l, op |-> op, arg |-> arg, ret |-> ret, cmds |-> cmds,
     slept |-> slept]
NoLockEvent == LockEvent(None, "none", None, None, {}, FALSE)

\* What a driver heartbeat did: whether it raised, and the locks whose lease
\* it asked the store to extend, extended, and warned about.
Heartbeat(d, exc, asked, extended, warned) ==
    [d |-> d, exc |-> exc, asked |-> asked, extended |-> extended,
     warned |-> warned]
NoHeartbeat == Heartbeat(None, None, {}, {}, {})

\* The caller's position: in no watcher call, or waiting for the future of
\* the get_members of _init_watch_group ("init_watch"), of run_watchers'
\* get_groups ("groups") or of its get_members on group g ("members").
Caller(pc, kind, g, todo) ==
    [pc |-> pc, kind |-> kind, g |-> g, todo |-> todo]
NoCall == Caller("none", None, None, {})

\* The membership of a group as the store held it at a poll: the ids with an
\* entry, and the ids that had ever joined by then.
Seen(valid, members, ever) ==
    [valid |-> valid, members |-> members, ever |-> ever]
NotSeen == Seen(FALSE, {}, {})

\* The callbacks a step of run_watchers invoked polling group g: for each
\* member id, how many join callbacks and how many leave callbacks got its
\* event; prev is the membership at the driver's poll of g before this one
\* (NotSeen if there was none, or a watch_*_group registration came since).
WatchEvent(d, g, joined, left, prev) ==
    [d |-> d, g |-> g, joined |-> joined, left |-> left, prev |-> prev]
NoCallbacks == [m \in Fields |-> 0]
NoWatchEvent == WatchEvent(None, None, NoCallbacks, NoCallbacks, NotSeen)

\* The position of a stop() call: item is the lock or group it has popped;
\* held and joined are the two sets as the call found them, released and
\* left the locks it has called release() on and the groups it has called
\* leave_group() on; stopped tells whether the driver was stopped already.
Stopping(pc, item, held, joined, released, left, stopped) ==
    [pc |-> pc, item |-> item, held |-> held, joined |-> joined,
     released |-> released, left |-> left, stopped |-> stopped]
NoStop == Stopping("none", None, {}, {}, {}, {}, FALSE)

Outstanding(d) == Len(queue[d]) + (IF run[d].pc = "idle" THEN 0 ELSE 1)

\* ---------------------------------------------------------------- Init
Init ==
    /\ hashes = [k \in GroupKeys |-> [f \in Fields |-> NoneBlob]]
    /\ groups_reg = EmptyBag
    /\ member_id \in {f \in [Drivers -> MemberIds] : f["d1"] = "m1"}
    /\ client = [d \in Drivers |-> None]
    /\ executor = [d \in Drivers |-> None]
    /\ started = [d \in Drivers |-> FALSE]
    /\ queue = [w \in Workers |-> <<>>]
    /\ run = [w \in Workers |-> Idle]
    /\ joined_groups = [d \in Drivers |-> {}]
    /\ last = NoOutcome
    /\ nops = 0
    /\ createdOk = [g \in Groups |-> 0]
    /\ joinedOk = [g \in Groups |-> [m \in MemberIds |-> 0]]
    /\ everJoined = [g \in Groups |-> {}]
    /\ capsOk = [g \in Groups |-> [m \in MemberIds |-> NoCaps]]
    /\ leases = [n \in LockKeys |-> NoLease]
    /\ lock_coord = [l \in LockObjs |-> None]
    /\ lock_name = [l \in LockObjs |-> NoKey]
    /\ lock_acquired = [l \in LockObjs |-> FALSE]
    /\ lock_token = [l \in LockObjs |-> None]
    /\ lock_wait = [l \in LockObjs |-> None]
    /\ acquired_locks = [d \in Drivers |-> {}]
    /\ lockev = NoLockEvent
    /\ hbev = NoHeartbeat
    /\ holds = [l \in LockObjs |-> FALSE]
    /\ everExpired = [n \in LockKeys |-> FALSE]
    /\ group_members = [d \in Drivers |-> [g \in Groups |-> {}]]
    /\ hooks_join_group = [d \in Drivers |-> [g \in Groups |-> 0]]
    /\ hooks_leave_group = [d \in Drivers |-> [g \in Groups |-> 0]]
    /\ wpc = [d \in Drivers |-> NoCall]
    /\ fut = [d \in Drivers |-> NoOutcome]
    /\ npolls = 0
    /\ wev = NoWatchEvent
    /\ observed = [d \in Drivers |-> NotSeen]
    /\ polled = [d \in Drivers |-> [g \in Groups |-> NotSeen]]
    /\ regsince = [d \in Drivers |-> [g \in Groups |-> FALSE]]
    /\ regstable = [d \in Drivers |-> [g \in Groups |-> FALSE]]
    /\ spc = [d \in Drivers |-> NoStop]

\* The watcher's side of the state, which only the watcher calls touch, and
\* the position of a stop() call, which only its own steps move.
WatchSideUnchanged ==
    /\ wev' = NoWatchEvent
    /\ UNCHANGED <<group_members, hooks_join_group, hooks_leave_group, wpc,
                   fut, npolls, observed, polled, regsince, regstable,
                   spc>>

\* Whether _submit hands the work to the executor.
Submits(d) == started[d] /\ executor[d] = "executor"

\* _submit: refuses unless started, else self._executor.submit(...): that
\* queues the work, or raises RuntimeError (made a ToozError) when the
\* executor has been shut down, or, self._executor being None, fails with
\* AttributeError.
_submit(d, t) ==
    IF ~started[d]
    THEN /\ last' = Raised(d, t, "ToozError")
         /\ UNCHANGED queue
    ELSE IF executor[d] = None
    THEN /\ last' = Raised(d, t, "AttributeError")
         /\ UNCHANGED queue
    ELSE IF executor[d] = "shutdown"
    THEN /\ last' = Raised(d, t, "ToozError")
         /\ UNCHANGED queue
    ELSE /\ queue' = [queue EXCEPT ![d] = Append(@, t)]
         /\ last' = NoOutcome

\* A call of one of the group operations: the ids are encoded first (a
\* member id equal to the sentinel raises ValueError there), then the
\* transaction is submitted.  (nops < MaxOps bounds the behaviour; the
\* program has no such limit.)
Call(d, t, encoded_member_id) ==
    /\ Outstanding(d) < MaxQueue
    /\ nops' = nops + 1
    /\ IF encoded_member_id = "ValueError"
       THEN last' = Raised(d, t, "ValueError") /\ UNCHANGED queue
       ELSE _submit(d, t)
    /\ UNCHANGED <<hashes, groups_reg, member_id, client, executor, started,
                   run, joined_groups, ghosts>>
    /\ UNCHANGED lvars
    /\ WatchSideUnchanged

create_group(d, group_id) ==
    /\ nops < MaxOps
    /\ Call(d, Task("create_group", group_id, NoCaps, None), None)

update_capabilities(d, group_id, capabilities) ==
    /\ nops < MaxOps
    /\ Call(d, Task("update_capabilities", group_id, capabilities, member_id[d]),
            _encode_member_id(member_id[d]))

leave_group(d, group_id) ==
    /\ nops < MaxOps
    /\ Call(d, Task("leave_group", group_id, NoCaps, member_id[d]),
            _encode_member_id(member_id[d]))

get_members(d, group_id) ==
    /\ nops < MaxOps
    /\ Call(d, Task("get_members", group_id, NoCaps, None), None)

get_member_capabilities(d, group_id, m) ==
    /\ nops < MaxOps
    /\ Call(d, Task("get_member_capabilities", group_id, NoCaps, m),
            _encode_member_id(m))

join_group(d, group_id, capabilities) ==
    /\ nops < MaxOps
    /\ Call(d, Task("join_group", group_id, capabilities, member_id[d]),
            _encode_member_id(member_id[d]))

get_groups(d) ==
    /\ nops < MaxOps
    /\ Call(d, Task("get_groups", None, NoCaps, None), None)

\* ------------------------------------------------- the executor's worker
\* The single worker takes the oldest queued task when it runs none, and
\* runs the transaction body one store command at a time.
Begins(d, op) ==
    /\ run[d].pc = "idle"
    /\ queue[d] # <<>>
    /\ Head(queue[d]).op = op
Continues(d, op, pc) == run[d].pc = pc /\ run[d].task.op = op
Dequeue(d) == queue' = [queue EXCEPT ![d] = Tail(@)]
Goto(d, pc, t) ==
    /\ run' = [run EXCEPT ![d] = At(pc, t)]
    /\ last' = NoOutcome
    /\ UNCHANGED lvars
    /\ WatchSideUnchanged
\* The task's future is set; a caller blocked in get() on it can go on.
Finish(d, outcome) ==
    /\ run' = [run EXCEPT ![d] = Idle]
    /\ last' = [outcome EXCEPT !.d = DriverOf(d)]
    /\ UNCHANGED lvars
    /\ fut' = IF outcome.task.waited
              THEN [fut EXCEPT ![DriverOf(d)] =
                       [outcome EXCEPT !.d = DriverOf(d)]]
              ELSE fut
    /\ observed' =
          IF outcome.task.waited /\ outcome.task.op = "get_members"
                /\ outcome.exc = None
          THEN [observed EXCEPT ![DriverOf(d)] =
                   Seen(TRUE,
                        {m \in MemberIds :
                            hexists(_encode_group_id(outcome.task.g), m)},
                        everJoined[outcome.task.g])]
          ELSE observed
    /\ wev' = NoWatchEvent
    /\ regstable' =
          IF outcome.exc = None
                /\ outcome.task.op \in {"join_group", "leave_group"}
          THEN [w \in Drivers |->
                   [regstable[w] EXCEPT ![outcome.task.g] = FALSE]]
          ELSE regstable
    /\ UNCHANGED <<group_members, hooks_join_group, hooks_leave_group, wpc,
                   npolls, polled, regsince, spc>>

\* A create_group that skips the existence check.
_create_group_unchecked(d) ==
    /\ Begins(d, "create_group")
    /\ Goto(d, "sadd", Head(queue[d]))
    /\ Dequeue(d)
    /\ UNCHANGED <<hashes, groups_reg, member_id, client, executor, started,
                   joined_groups, nops, ghosts>>

\* _create_group: p.exists(encoded_group)
_create_group_exists(d) ==
    /\ Begins(d, "create_group")
    /\ LET t == Head(queue[d])
           encoded_group == _encode_group_id(t.g)
       IN  IF exists(encoded_group)
           THEN Finish(d, Failed(d, t, "GroupAlreadyExist"))
           ELSE Goto(d, "sadd", t)
    /\ Dequeue(d)
    /\ UNCHANGED <<hashes, groups_reg, member_id, client, executor, started,
                   joined_groups, nops, ghosts>>

\* _create_group: p.sadd(self._groups, group_id)
_create_group_sadd(d) ==
    /\ Continues(d, "create_group", "sadd")
    /\ groups_reg' = sadd(groups_reg, run[d].task.g)
    /\ Goto(d, "hset", run[d].task)
    /\ UNCHANGED <<hashes, member_id, client, executor, started, queue,
                   joined_groups, nops, ghosts>>

\* _create_group: p.hset(encoded_group, self._GROUP_EXISTS, '1')
_create_group_hset(d) ==
    /\ Continues(d, "create_group", "hset")
    /\ LET t == run[d].task
       IN  /\ hashes' = hset(_encode_group_id(t.g), _GROUP_EXISTS,
                             SentinelValue)
           /\ createdOk' = [createdOk EXCEPT ![t.g] = @ + 1]
           /\ Finish(d, Returned(d, t))
    /\ UNCHANGED <<groups_reg, member_id, client, executor, started, queue,
                   joined_groups, nops, joinedOk, everJoined, capsOk>>

\* _update_capabilities: p.exists(encoded_group)
_update_capabilities_exists(d) ==
    /\ Begins(d, "update_capabilities")
    /\ LET t == Head(queue[d])
       IN  IF ~exists(_encode_group_id(t.g))
           THEN Finish(d, Failed(d, t, "GroupNotCreated"))
           ELSE Goto(d, "hexists", t)
    /\ Dequeue(d)
    /\ UNCHANGED <<hashes, groups_reg, member_id, client, executor, started,
                   joined_groups, nops, ghosts>>

\* _update_capabilities: p.hexists(encoded_group, encoded_member_id)
_update_capabilities_hexists(d) ==
    /\ Continues(d, "update_capabilities", "hexists")
    /\ LET t == run[d].task
       IN  IF ~hexists(_encode_group_id(t.g), _encode_member_id(t.m))
           THEN Finish(d, Failed(d, t, "MemberNotJoined"))
           ELSE Goto(d, "hset", t)
    /\ UNCHANGED <<hashes, groups_reg, member_id, client, executor, started,
                   queue, joined_groups, nops, ghosts>>

\* _update_capabilities: p.hset(encoded_group, encoded_member_id, dumps(..))
_update_capabilities_hset(d) ==
    /\ Continues(d, "update_capabilities", "hset")
    /\ LET t == run[d].task
       IN  /\ hashes' = hset(_encode_group_id(t.g), _encode_member_id(t.m),
                             _dumps(t.caps))
           /\ capsOk' = [capsOk EXCEPT ![t.g][t.m] = t.caps]
           /\ Finish(d, Returned(d, t))
    /\ UNCHANGED <<groups_reg, member_id, client, executor, started, queue,
                   joined_groups, nops, createdOk, joinedOk, everJoined>>

\* _leave_group: p.exists(encoded_group)
_leave_group_exists(d) ==
    /\ Begins(d, "leave_group")
    /\ LET t == Head(queue[d])
       IN  IF ~exists(_encode_group_id(t.g))
           THEN Finish(d, Failed(d, t, "GroupNotCreated"))
           ELSE Goto(d, "hdel", t)
    /\ Dequeue(d)
    /\ UNCHANGED <<hashes, groups_reg, member_id, client, executor, started,
                   joined_groups, nops, ghosts>>

\* A leave_group that forgets to drop the group from self._joined_groups.
_leave_group_keeps_joined(d) ==
    /\ Continues(d, "leave_group", "hdel")
    /\ LET t == run[d].task
           encoded_group == _encode_group_id(t.g)
           encoded_member_id == _encode_member_id(t.m)
           c == hdel_reply(encoded_group, encoded_member_id)
       IN  /\ hashes' = hdel(encoded_group, encoded_member_id)
           /\ IF c = 0
              THEN /\ Finish(d, Failed(d, t, "MemberNotJoined"))
                   /\ UNCHANGED <<joinedOk, capsOk>>
              ELSE /\ joinedOk' = [joinedOk EXCEPT ![t.g][t.m] = 0]
                   /\ capsOk' = [capsOk EXCEPT ![t.g][t.m] = NoCaps]
                   /\ Finish(d, Returned(d, t))
    /\ UNCHANGED <<groups_reg, member_id, client, executor, started, queue,
                   joined_groups, nops, createdOk, everJoined>>

\* _leave_group: c = p.hdel(encoded_group, encoded_member_id), then either
\* MemberNotJoined or self._joined_groups.discard(group_id)
_leave_group_hdel(d) ==
    /\ Continues(d, "leave_group", "hdel")
    /\ LET t == run[d].task
           encoded_group == _encode_group_id(t.g)
           encoded_member_id == _encode_member_id(t.m)
           c == hdel_reply(encoded_group, encoded_member_id)
       IN  /\ hashes' = hdel(encoded_group, encoded_member_id)
           /\ IF c = 0
              THEN /\ Finish(d, Failed(d, t, "MemberNotJoined"))
                   /\ UNCHANGED <<joined_groups, joinedOk, capsOk>>
              ELSE /\ joined_groups' =
                          [joined_groups EXCEPT ![DriverOf(d)] = @ \ {t.g}]
                   /\ joinedOk' = [joinedOk EXCEPT ![t.g][t.m] = 0]
                   /\ capsOk' = [capsOk EXCEPT ![t.g][t.m] = NoCaps]
                   /\ Finish(d, Returned(d, t))
    /\ UNCHANGED <<groups_reg, member_id, client, executor, started, queue,
                   nops, createdOk, everJoined>>

\* _get_members: p.exists(encoded_group)
_get_members_exists(d) ==
    /\ Begins(d, "get_members")
    /\ LET t == Head(queue[d])
       IN  IF ~exists(_encode_group_id(t.g))
           THEN Finish(d, Failed(d, t, "GroupNotCreated"))
           ELSE Goto(d, "hkeys", t)
    /\ Dequeue(d)
    /\ UNCHANGED <<hashes, groups_reg, member_id, client, executor, started,
                   joined_groups, nops, ghosts>>

\* A get_members that does not filter the existence sentinel out.
_get_members_unfiltered(d) ==
    /\ Continues(d, "get_members", "hkeys")
    /\ LET t == run[d].task
           members == {_decode_member_id(m) :
                          m \in hkeys(_encode_group_id(t.g))}
       IN  Finish(d, [Returned(d, t) EXCEPT !.members = members])
    /\ UNCHANGED <<hashes, groups_reg, member_id, client, executor, started,
                   queue, joined_groups, nops, ghosts>>

\* _get_members: every key of p.hkeys(encoded_group) but the sentinel
_get_members_hkeys(d) ==
    /\ Continues(d, "get_members", "hkeys")
    /\ LET t == run[d].task
           members == {_decode_member_id(m) :
                          m \in {k \in hkeys(_encode_group_id(t.g)) :
                                    k # _GROUP_EXISTS}}
       IN  Finish(d, [Returned(d, t) EXCEPT !.members = members])
    /\ UNCHANGED <<hashes, groups_reg, member_id, client, executor, started,
                   queue, joined_groups, nops, ghosts>>

\* _get_member_capabilities: p.exists(encoded_group)
_get_member_capabilities_exists(d) ==
    /\ Begins(d, "get_member_capabilities")
    /\ LET t == Head(queue[d])
       IN  IF ~exists(_encode_group_id(t.g))
           THEN Finish(d, Failed(d, t, "GroupNotCreated"))
           ELSE Goto(d, "hget", t)
    /\ Dequeue(d)
    /\ UNCHANGED <<hashes, groups_reg, member_id, client, executor, started,
                   joined_groups, nops, ghosts>>

\* _get_member_capabilities: p.hget(encoded_group, encoded_member_id)
_get_member_capabilities_hget(d) ==
    /\ Continues(d, "get_member_capabilities", "hget")
    /\ LET t == run[d].task
           capabilities == hget(_encode_group_id(t.g), _encode_member_id(t.m))
       IN  IF capabilities = NoneBlob
           THEN Finish(d, Failed(d, t, "MemberNotJoined"))
           ELSE Finish(d, [Returned(d, t) EXCEPT
                               !.value = _loads(capabilities)])
    /\ UNCHANGED <<hashes, groups_reg, member_id, client, executor, started,
                   queue, joined_groups, nops, ghosts>>

\* A join_group that skips the existence check.
_join_group_unchecked(d) ==
    /\ Begins(d, "join_group")
    /\ Goto(d, "hset", Head(queue[d]))
    /\ Dequeue(d)
    /\ UNCHANGED <<hashes, groups_reg, member_id, client, executor, started,
                   joined_groups, nops, ghosts>>

\* _join_group: p.exists(encoded_group)
_join_group_exists(d) ==
    /\ Begins(d, "join_group")
    /\ LET t == Head(queue[d])
       IN  IF ~exists(_encode_group_id(t.g))
           THEN Finish(d, Failed(d, t, "GroupNotCreated"))
           ELSE Goto(d, "hset", t)
    /\ Dequeue(d)
    /\ UNCHANGED <<hashes, groups_reg, member_id, client, executor, started,
                   joined_groups, nops, ghosts>>

\* A join_group that ignores HSET's reply and always reports success.
_join_group_ignores_reply(d) ==
    /\ Continues(d, "join_group", "hset")
    /\ LET t == run[d].task
       IN  /\ hashes' = hset(_encode_group_id(t.g), _encode_member_id(t.m),
                             _dumps(t.caps))
           /\ joined_groups' =
                [joined_groups EXCEPT ![DriverOf(d)] = @ \cup {t.g}]
           /\ joinedOk' = [joinedOk EXCEPT ![t.g][t.m] = @ + 1]
           /\ everJoined' = [everJoined EXCEPT ![t.g] = @ \cup {t.m}]
           /\ capsOk' = [capsOk EXCEPT ![t.g][t.m] = t.caps]
           /\ Finish(d, Returned(d, t))
    /\ UNCHANGED <<groups_reg, member_id, client, executor, started, queue,
                   nops, createdOk>>

\* _join_group: c = p.hset(encoded_group, encoded_member_id, dumps(caps)),
\* then either MemberAlreadyExist or self._joined_groups.add(group_id)
_join_group_hset(d) ==
    /\ Continues(d, "join_group", "hset")
    /\ LET t == run[d].task
           encoded_group == _encode_group_id(t.g)
           encoded_member_id == _encode_member_id(t.m)
           c == hset_reply(encoded_group, encoded_member_id)
       IN  /\ hashes' = hset(encoded_group, encoded_member_id,
                             _dumps(t.caps))
           /\ IF c = 0
              THEN /\ Finish(d, Failed(d, t, "MemberAlreadyExist"))
                   /\ UNCHANGED <<joined_groups, joinedOk, everJoined,
                                  capsOk>>
              ELSE /\ joined_groups' =
                          [joined_groups EXCEPT ![DriverOf(d)] =
                              @ \cup {t.g}]
                   /\ joinedOk' = [joinedOk EXCEPT ![t.g][t.m] = @ + 1]
                   /\ everJoined' = [everJoined EXCEPT ![t.g] = @ \cup {t.m}]
                   /\ capsOk' = [capsOk EXCEPT ![t.g][t.m] = t.caps]
                   /\ Finish(d, Returned(d, t))
    /\ UNCHANGED <<groups_reg, member_id, client, executor, started, queue,
                   nops, createdOk>>

\* _get_groups: one result per member of self._client.smembers(self._groups)
_get_groups(d) ==
    /\ Begins(d, "get_groups")
    /\ Finish(d, [Returned(d, Head(queue[d])) EXCEPT
                      !.groups = smembers(groups_reg)])
    /\ Dequeue(d)
    /\ UNCHANGED <<hashes, groups_reg, member_id, client, executor, started,
                   joined_groups, nops, ghosts>>

\* ------------------------------------------------------------------ locks
\* The group side of the state, which no lock call touches.
GroupSideUnchanged ==
    /\ last' = NoOutcome
    /\ WatchSideUnchanged
    /\ UNCHANGED <<hashes, groups_reg, member_id, client, executor, started,
                   queue, run, joined_groups, nops, ghosts>>

\* get_lock: RedisLock(self, self._client, name, self.lock_timeout); it
\* needs the client, which only _start makes.
get_lock(d, l, name) ==
    /\ client[d] # None
    /\ lock_coord[l] = None
    /\ lock_coord' = [lock_coord EXCEPT ![l] = d]
    /\ lock_name' = [lock_name EXCEPT ![l] = RedisLock_name(name)]
    /\ lock_acquired' = [lock_acquired EXCEPT ![l] = FALSE]
    /\ lockev' = NoLockEvent /\ hbev' = NoHeartbeat
    /\ UNCHANGED <<leases, lock_token, lock_wait, acquired_locks, holds,
                   everExpired>>
    /\ GroupSideUnchanged

\* The redis lock's own attempt (SET-if-absent, then the expiry): what
\* self._lock.acquire does each time round its loop.
do_acquire_ok(l) == leases[lock_name[l]].token = None

\* self._acquired = self._lock.acquire(...) has returned True: the lease is
\* written, and the lock goes into the driver's held-lock set.
Acquired(l, slept, arg) ==
    /\ leases' = [leases EXCEPT ![lock_name[l]] = Lease(l, 0)]
    /\ lock_token' = [lock_token EXCEPT ![l] = l]
    /\ lock_acquired' = [lock_acquired EXCEPT ![l] = TRUE]
    /\ acquired_locks' = [acquired_locks EXCEPT ![lock_coord[l]] = @ \cup {l}]
    /\ holds' = [holds EXCEPT ![l] = TRUE]
    /\ lock_wait' = [lock_wait EXCEPT ![l] = None]
    /\ lockev' = LockEvent(l, "acquire", arg, "True", {"SETNX", "PEXPIRE"},
                           slept)

\* self._acquired = self._lock.acquire(...) has returned False.
NotAcquired(l, slept, arg) ==
    /\ lock_acquired' = [lock_acquired EXCEPT ![l] = FALSE]
    /\ lock_wait' = [lock_wait EXCEPT ![l] = None]
    /\ lockev' = LockEvent(l, "acquire", arg, "False", {"SETNX"}, slept)
    /\ UNCHANGED <<leases, lock_token, acquired_locks, holds>>

\* The store failed under the call: _translate_failures raises, and the
\* assignment to self._acquired never happens.
AcquireRaised(l, slept, arg) ==
    /\ lock_wait' = [lock_wait EXCEPT ![l] = None]
    /\ lockev' = LockEvent(l, "acquire", arg,
                           _translate_failures("ConnectionError"), {"SETNX"},
                           slept)
    /\ UNCHANGED <<leases, lock_token, lock_acquired, acquired_locks, holds>>

\* An acquire that registers the lock whatever the store answered.
acquire_registers_always(l, blocking, store_ok) ==
    /\ lock_coord[l] # None
    /\ lock_wait[l] = None
    /\ store_ok
    /\ lock_acquired' = [lock_acquired EXCEPT ![l] = do_acquire_ok(l)]
    /\ acquired_locks' = [acquired_locks EXCEPT ![lock_coord[l]] = @ \cup {l}]
    /\ leases' = IF do_acquire_ok(l)
                 THEN [leases EXCEPT ![lock_name[l]] = Lease(l, 0)]
                 ELSE leases
    /\ lock_token' = IF do_acquire_ok(l)
                     THEN [lock_token EXCEPT ![l] = l] ELSE lock_token
    /\ holds' = [holds EXCEPT ![l] = @ \/ do_acquire_ok(l)]
    /\ lockev' = LockEvent(l, "acquire", blocking,
                           IF do_acquire_ok(l) THEN "True" ELSE "False",
                           {"SETNX"}, FALSE)
    /\ hbev' = NoHeartbeat
    /\ UNCHANGED <<lock_coord, lock_name, lock_wait, everExpired>>
    /\ GroupSideUnchanged

\* RedisLock.acquire, up to the first answer of the store.  blocking is
\* "True", "False" or "timed" (a number of seconds); a blocking call that
\* finds the lease taken sleeps and tries again (acquire_retry).
acquire(l, blocking, store_ok) ==
    /\ lock_coord[l] # None
    /\ lock_wait[l] = None
    /\ IF ~store_ok THEN AcquireRaised(l, FALSE, blocking)
       ELSE IF do_acquire_ok(l) THEN Acquired(l, FALSE, blocking)
       ELSE IF blocking = "False" THEN NotAcquired(l, FALSE, blocking)
       ELSE /\ lock_wait' = [lock_wait EXCEPT ![l] = blocking]
            /\ lockev' = NoLockEvent
            /\ UNCHANGED <<leases, lock_token, lock_acquired, acquired_locks,
                           holds>>
    /\ hbev' = NoHeartbeat
    /\ UNCHANGED <<lock_coord, lock_name, everExpired>>
    /\ GroupSideUnchanged

\* RedisLock.acquire, a later round of the waiting loop: the lease has become
\* free, or the blocking timeout has run out, or the store has failed.
acquire_retry(l, store_ok, timed_out) ==
    /\ lock_wait[l] # None
    /\ IF ~store_ok THEN AcquireRaised(l, TRUE, lock_wait[l])
       ELSE IF do_acquire_ok(l) THEN Acquired(l, TRUE, lock_wait[l])
       ELSE /\ lock_wait[l] = "timed" /\ timed_out
            /\ NotAcquired(l, TRUE, lock_wait[l])
    /\ hbev' = NoHeartbeat
    /\ UNCHANGED <<lock_coord, lock_name, everExpired>>
    /\ GroupSideUnchanged

\* self._lock.release(): LockError when this lock object has no token, or
\* when the key no longer holds its token; the token is forgotten before the
\* store is asked.  The answer: "released", "LockError" or "ConnectionError".
lock_release(l, store_ok) ==
    IF lock_token[l] = None THEN "LockError"
    ELSE IF ~store_ok THEN "ConnectionError"
    ELSE IF leases[lock_name[l]].token # lock_token[l] THEN "LockError"
    ELSE "released"

\* A release that drops the lock from the held set whatever the store says.
release_drops_always(l, store_ok) ==
    /\ lock_coord[l] # None
    /\ lock_wait[l] = None
    /\ lock_acquired[l]
    /\ store_ok
    /\ lock_token' = [lock_token EXCEPT ![l] = None]
    /\ leases' = IF lock_release(l, store_ok) = "released"
                 THEN [leases EXCEPT ![lock_name[l]] = NoLease] ELSE leases
    /\ acquired_locks' = [acquired_locks EXCEPT ![lock_coord[l]] = @ \ {l}]
    /\ lock_acquired' = [lock_acquired EXCEPT ![l] = FALSE]
    /\ holds' = [holds EXCEPT ![l] =
                    @ /\ lock_release(l, store_ok) # "released"]
    /\ lockev' = LockEvent(l, "release", None,
                           IF lock_release(l, store_ok) = "released"
                           THEN "True" ELSE "False", {"release"}, FALSE)
    /\ hbev' = NoHeartbeat
    /\ UNCHANGED <<lock_coord, lock_name, lock_wait, everExpired>>
    /\ GroupSideUnchanged

\* RedisLock.release, the call itself: what it does to the lock, the lease
\* and the held-lock set, and what it answers.
RedisLock_release(l, store_ok) ==
    IF ~lock_acquired[l]
    THEN /\ lockev' = LockEvent(l, "release", None, "False", {}, FALSE)
         /\ UNCHANGED <<leases, lock_token, lock_acquired, acquired_locks,
                        holds>>
    ELSE LET answer == lock_release(l, store_ok)
             cmds == IF lock_token[l] = None THEN {} ELSE {"release"}
         IN  /\ lock_token' = [lock_token EXCEPT ![l] = None]
             /\ CASE answer = "released" ->
                       /\ leases' = [leases EXCEPT ![lock_name[l]] =
                                        NoLease]
                       /\ acquired_locks' =
                             [acquired_locks EXCEPT ![lock_coord[l]] =
                                 @ \ {l}]
                       /\ lock_acquired' =
                             [lock_acquired EXCEPT ![l] = FALSE]
                       /\ holds' = [holds EXCEPT ![l] = FALSE]
                       /\ lockev' = LockEvent(l, "release", None, "True",
                                              cmds, FALSE)
                  [] answer = "LockError" ->
                       /\ lockev' = LockEvent(l, "release", None, "False",
                                              cmds, FALSE)
                       /\ UNCHANGED <<leases, lock_acquired,
                                      acquired_locks, holds>>
                  [] OTHER ->
                       /\ lockev' = LockEvent(l, "release", None,
                                              _translate_failures(answer),
                                              cmds, FALSE)
                       /\ UNCHANGED <<leases, lock_acquired,
                                      acquired_locks, holds>>

\* RedisLock.release
release(l, store_ok) ==
    /\ lock_coord[l] # None
    /\ lock_wait[l] = None
    /\ RedisLock_release(l, store_ok)
    /\ hbev' = NoHeartbeat
    /\ UNCHANGED <<lock_coord, lock_name, lock_wait, everExpired>>
    /\ GroupSideUnchanged

\* self._lock.extend(self._lock.timeout): LockError (a RedisError) when
\* this lock object has no token or the key no longer holds it.  The answer:
\* "extended", "LockError" or "ConnectionError".
lock_extend(l, store_ok) ==
    IF lock_token[l] = None THEN "LockError"
    ELSE IF ~store_ok THEN "ConnectionError"
    ELSE IF leases[lock_name[l]].token # lock_token[l] THEN "LockError"
    ELSE "extended"

\* RedisLock.heartbeat: what it does to lock l, as "skipped" (not held
\* locally, nothing sent), "extended", or the tooz error it raises.
RedisLock_heartbeat_answer(l, store_ok) ==
    IF ~lock_acquired[l] THEN "skipped"
    ELSE IF lock_extend(l, store_ok) = "extended" THEN "extended"
    ELSE IF lock_extend(l, store_ok) = "LockError"
         THEN _translate_failures("RedisError")
         ELSE _translate_failures(lock_extend(l, store_ok))

\* Whether RedisLock.heartbeat sends the store a command for lock l.
ExtendSent(l) == lock_acquired[l] /\ lock_token[l] # None

Extend(extended) ==
    leases' = [n \in LockKeys |->
                  IF leases[n].token \in extended
                  THEN Lease(leases[n].token, 0) ELSE leases[n]]

\* RedisLock.heartbeat called on the lock object itself
RedisLock_heartbeat(l, store_ok) ==
    /\ lock_coord[l] # None
    /\ lock_wait[l] = None
    /\ LET answer == RedisLock_heartbeat_answer(l, store_ok)
       IN  /\ Extend(IF answer = "extended" THEN {l} ELSE {})
           /\ lockev' = LockEvent(l, "heartbeat", None,
                                  IF answer \in {"skipped", "extended"}
                                  THEN None ELSE answer,
                                  IF ExtendSent(l) THEN {"extend"} ELSE {},
                                  FALSE)
    /\ hbev' = NoHeartbeat
    /\ UNCHANGED <<lock_coord, lock_name, lock_acquired, lock_token,
                   lock_wait, acquired_locks, holds, everExpired>>
    /\ GroupSideUnchanged

\* RedisDriver.heartbeat: the ping, then lock.heartbeat() on every lock of
\* self._acquired_locks, a ToozError of any of them caught and logged.
\* failing: the locks for which the store fails under the extend.
heartbeat(d, ping_ok, failing) ==
    /\ client[d] # None
    /\ failing \subseteq acquired_locks[d]
    /\ ~ping_ok => failing = {}
    /\ IF ~ping_ok
       THEN /\ hbev' = Heartbeat(d, _translate_failures("ConnectionError"),
                                 {}, {}, {})
            /\ UNCHANGED leases
       ELSE LET answer(l) == RedisLock_heartbeat_answer(l, l \notin failing)
                extended == {l \in acquired_locks[d] :
                                answer(l) = "extended"}
            IN  /\ Extend(extended)
                /\ hbev' = Heartbeat(d, None,
                                     {l \in acquired_locks[d] : ExtendSent(l)},
                                     extended,
                                     {l \in acquired_locks[d] :
                                         answer(l) \notin
                                            {"skipped", "extended"}})
    /\ lockev' = NoLockEvent
    /\ UNCHANGED <<lock_coord, lock_name, lock_acquired, lock_token,
                   lock_wait, acquired_locks, holds, everExpired>>
    /\ GroupSideUnchanged

\* The store's clock: a lease that is not extended comes near its timeout,
\* and then expires, which frees the lock key.
LeaseAges(n) ==
    /\ leases[n].token # None
    /\ leases[n].age = 0
    /\ leases' = [leases EXCEPT ![n].age = 1]
    /\ lockev' = NoLockEvent /\ hbev' = NoHeartbeat
    /\ UNCHANGED <<lock_coord, lock_name, lock_acquired, lock_token,
                   lock_wait, acquired_locks, holds, everExpired>>
    /\ GroupSideUnchanged

LeaseExpires(n) ==
    /\ leases[n].token # None
    /\ leases[n].age = 1
    /\ leases' = [leases EXCEPT ![n] = NoLease]
    /\ everExpired' = [everExpired EXCEPT ![n] = TRUE]
    /\ lockev' = NoLockEvent /\ hbev' = NoHeartbeat
    /\ UNCHANGED <<lock_coord, lock_name, lock_acquired, lock_token,
                   lock_wait, acquired_locks, holds>>
    /\ GroupSideUnchanged

\* ------------------------------------------------------------- lifecycle
\* _start: a fresh single-worker executor in place of the one the driver
\* had (which keeps its queued work and its worker), a client, then
\* heartbeat(): the ping, and the lease of every held lock extended; only a
\* ping that answers marks the driver started.  (start() and stop() are not
\* called at once; the executor abandoned before must have finished.)
_start(d, ping_ok) ==
    /\ spc[d].pc = "none"
    /\ Outstanding(d) > 0 => Outstanding(Abandoned(d)) = 0
    /\ executor' = [executor EXCEPT ![d] = "executor"]
    /\ IF Outstanding(d) > 0
       THEN /\ queue' = [queue EXCEPT ![Abandoned(d)] = queue[d],
                                      ![d] = <<>>]
            /\ run' = [run EXCEPT ![Abandoned(d)] = run[d], ![d] = Idle]
       ELSE UNCHANGED <<queue, run>>
    /\ client' = [client EXCEPT ![d] = "client"]
    /\ started' = [started EXCEPT ![d] = @ \/ ping_ok]
    /\ IF ping_ok
       THEN Extend({l \in acquired_locks[d] :
                       RedisLock_heartbeat_answer(l, TRUE) = "extended"})
       ELSE UNCHANGED leases
    /\ last' = NoOutcome
    /\ UNCHANGED <<hashes, groups_reg, member_id, joined_groups, nops,
                   ghosts>>
    /\ lockev' = NoLockEvent /\ hbev' = NoHeartbeat
    /\ UNCHANGED <<lock_coord, lock_name, lock_acquired, lock_token,
                   lock_wait, acquired_locks, holds, everExpired>>
    /\ WatchSideUnchanged

\* start() on a driver that is not running.
start(d, ping_ok) ==
    /\ ~started[d]
    /\ _start(d, ping_ok)

\* What no step of stop() touches.
StopFrame ==
    /\ UNCHANGED <<hashes, groups_reg, member_id, nops, ghosts>>
    /\ hbev' = NoHeartbeat
    /\ UNCHANGED <<lock_coord, lock_name, lock_wait, everExpired>>
    /\ wev' = NoWatchEvent
    /\ UNCHANGED <<group_members, hooks_join_group, hooks_leave_group, wpc,
                   npolls, observed, polled, regsince, regstable>>

\* What a step of stop() leaves alone when it calls nothing on a lock.
NoLockCall ==
    /\ lockev' = NoLockEvent
    /\ UNCHANGED <<leases, lock_acquired, lock_token, holds>>

\* What a step of stop() leaves alone when it submits and awaits nothing.
NoGroupCall ==
    /\ last' = NoOutcome
    /\ UNCHANGED <<queue, run, fut>>

\* _stop is entered and tests `while self._acquired_locks`.
stop(d) ==
    /\ spc[d].pc = "none"
    /\ wpc[d].pc = "none"
    /\ spc' = [spc EXCEPT ![d] =
                  Stopping(IF acquired_locks[d] # {} THEN "lock_pop"
                           ELSE "groups",
                           None, acquired_locks[d], joined_groups[d], {}, {},
                           ~started[d] /\ executor[d] = None
                              /\ client[d] = None)]
    /\ UNCHANGED <<acquired_locks, joined_groups, executor, client, started>>
    /\ NoLockCall /\ NoGroupCall /\ StopFrame

\* The end of a stop() that an exception other than ToozError leaves.
_stop_raises(d, exc) ==
    /\ spc' = [spc EXCEPT ![d] = NoStop]
    /\ last' = Raised(d, NoTask, exc)

\* lock = self._acquired_locks.pop(): KeyError if the set has been emptied
\* since the test.
_stop_lock_pop(d) ==
    /\ spc[d].pc = "lock_pop"
    /\ IF acquired_locks[d] = {}
       THEN /\ _stop_raises(d, "KeyError")
            /\ UNCHANGED acquired_locks
       ELSE \E l \in acquired_locks[d] :
              /\ acquired_locks' = [acquired_locks EXCEPT ![d] = @ \ {l}]
              /\ spc' = [spc EXCEPT ![d].pc = "lock_release",
                                    ![d].item = l]
              /\ last' = NoOutcome
    /\ UNCHANGED <<joined_groups, executor, client, started, queue, run,
                   fut>>
    /\ NoLockCall /\ StopFrame

\* lock.release(), a ToozError caught and logged; then the test of
\* `while self._acquired_locks` again.
_stop_lock_release(d, store_ok) ==
    /\ spc[d].pc = "lock_release"
    /\ RedisLock_release(spc[d].item, store_ok)
    /\ spc' = [spc EXCEPT ![d].pc = IF acquired_locks[d] \ {spc[d].item} # {}
                                    THEN "lock_pop" ELSE "groups",
                          ![d].item = None,
                          ![d].released = @ \cup {spc[d].item}]
    /\ UNCHANGED <<joined_groups, executor, client, started>>
    /\ NoGroupCall /\ StopFrame

\* The test of `while self._joined_groups`.
_stop_groups(d) ==
    /\ spc[d].pc = "groups"
    /\ spc' = [spc EXCEPT ![d].pc = IF joined_groups[d] # {}
                                    THEN "group_pop" ELSE "shutdown"]
    /\ UNCHANGED <<acquired_locks, joined_groups, executor, client, started>>
    /\ NoLockCall /\ NoGroupCall /\ StopFrame

\* group_id = self._joined_groups.pop(), KeyError if the set has been
\* emptied since the test; then self.leave_group(group_id), whose ToozError
\* is caught and logged.
_stop_group_pop(d) ==
    /\ spc[d].pc = "group_pop"
    /\ IF joined_groups[d] = {}
       THEN /\ _stop_raises(d, "KeyError")
            /\ UNCHANGED <<joined_groups, queue>>
       ELSE \E g \in joined_groups[d] :
              /\ Submits(d) => Outstanding(d) < MaxQueue
              /\ joined_groups' = [joined_groups EXCEPT ![d] = @ \ {g}]
              /\ _submit(d, Waited(Task("leave_group", g, NoCaps,
                                        member_id[d])))
              /\ spc' = [spc EXCEPT
                            ![d] = IF started[d] /\ executor[d] = None
                                   THEN NoStop
                                   ELSE [@ EXCEPT
                                           !.pc = IF Submits(d)
                                                  THEN "group_get"
                                                  ELSE "groups",
                                           !.item = g,
                                           !.left = @ \cup {g}]]
    /\ UNCHANGED <<acquired_locks, executor, client, started, run, fut>>
    /\ NoLockCall /\ StopFrame

\* self.leave_group(group_id).get(): the result, a ToozError caught and
\* logged, when the future is finished; OperationTimedOut (a ToozError,
\* caught too) when it is not finished in time, and then the work is not
\* cancelled, only its future dropped.
_stop_group_get(d, timed_out) ==
    /\ spc[d].pc = "group_get"
    /\ timed_out <=> fut[d] = NoOutcome
    /\ IF timed_out
       THEN /\ queue' = [queue EXCEPT ![d] =
                           [i \in DOMAIN @ |->
                               [@[i] EXCEPT !.waited = FALSE]]]
            /\ run' = [run EXCEPT ![d].task.waited = FALSE]
            /\ UNCHANGED fut
       ELSE /\ fut' = [fut EXCEPT ![d] = NoOutcome]
            /\ UNCHANGED <<queue, run>>
    /\ spc' = [spc EXCEPT ![d].pc = "groups", ![d].item = None]
    /\ last' = NoOutcome
    /\ UNCHANGED <<acquired_locks, joined_groups, executor, client, started>>
    /\ NoLockCall /\ StopFrame

\* if self._executor is not None: self._executor.shutdown(wait=True), which
\* first marks the executor shut down
_stop_shutdown(d) ==
    /\ spc[d].pc = "shutdown"
    /\ IF executor[d] = None
       THEN /\ spc' = [spc EXCEPT ![d].pc = "client"]
            /\ UNCHANGED executor
       ELSE /\ spc' = [spc EXCEPT ![d].pc = "shutdown_wait"]
            /\ executor' = [executor EXCEPT ![d] = "shutdown"]
    /\ UNCHANGED <<acquired_locks, joined_groups, client, started>>
    /\ NoLockCall /\ NoGroupCall /\ StopFrame

\* shutdown(wait=True) returns when the worker has run all the work queued;
\* then self._executor = None
_stop_shutdown_wait(d) ==
    /\ spc[d].pc = "shutdown_wait"
    /\ Outstanding(d) = 0
    /\ executor' = [executor EXCEPT ![d] = None]
    /\ spc' = [spc EXCEPT ![d].pc = "client"]
    /\ UNCHANGED <<acquired_locks, joined_groups, client, started>>
    /\ NoLockCall /\ NoGroupCall /\ StopFrame

\* self._client = None
_stop_client(d) ==
    /\ spc[d].pc = "client"
    /\ client' = [client EXCEPT ![d] = None]
    /\ spc' = [spc EXCEPT ![d].pc = "started"]
    /\ UNCHANGED <<acquired_locks, joined_groups, executor, started>>
    /\ NoLockCall /\ NoGroupCall /\ StopFrame

\* self._started = False, and stop() returns.
_stop_started(d) ==
    /\ spc[d].pc = "started"
    /\ started' = [started EXCEPT ![d] = FALSE]
    /\ spc' = [spc EXCEPT ![d] = NoStop]
    /\ UNCHANGED <<acquired_locks, joined_groups, executor, client>>
    /\ NoLockCall /\ NoGroupCall /\ StopFrame

\* ---------------------------------------------------------------- watchers
\* What the watcher calls leave alone.
WatchCallFrame ==
    /\ UNCHANGED <<hashes, groups_reg, member_id, client, executor, started,
                   joined_groups, nops, ghosts>>
    /\ lockev' = NoLockEvent /\ hbev' = NoHeartbeat
    /\ UNCHANGED <<leases, lock_coord, lock_name, lock_acquired, lock_token,
                   lock_wait, acquired_locks, holds, everExpired>>
    /\ UNCHANGED spc

\* _init_watch_group: members = self.get_members(group_id); the caller then
\* blocks in members.get(timeout=None).
_init_watch_group(d, group_id, kind) ==
    /\ wpc[d].pc = "none"
    /\ Outstanding(d) < MaxQueue
    /\ _submit(d, Waited(Task("get_members", group_id, NoCaps, None)))
    /\ wpc' = [wpc EXCEPT ![d] =
                  IF Submits(d)
                  THEN Caller("init_watch", kind, group_id, {})
                  ELSE NoCall]
    /\ regstable' = [regstable EXCEPT ![d][group_id] = Submits(d)]
    /\ wev' = NoWatchEvent
    /\ UNCHANGED <<group_members, hooks_join_group, hooks_leave_group, fut,
                   npolls, observed, polled, regsince, run>>
    /\ WatchCallFrame

watch_join_group(d, group_id) ==
    /\ hooks_join_group[d][group_id] < MaxHooks
    /\ _init_watch_group(d, group_id, "join")

watch_leave_group(d, group_id) ==
    /\ hooks_leave_group[d][group_id] < MaxHooks
    /\ _init_watch_group(d, group_id, "leave")

\* members.get(timeout=None) comes back: an exception leaves the call with
\* nothing registered; a result is added to the group's snapshot
\* (set.update) and the base class then appends the callback to the hooks.
_init_watch_group_update(d) ==
    /\ wpc[d].pc = "init_watch"
    /\ fut[d] # NoOutcome
    /\ LET g == wpc[d].g
       IN  IF get(fut[d]) # None
           THEN UNCHANGED <<group_members, hooks_join_group,
                            hooks_leave_group, regsince>>
           ELSE /\ group_members' = [group_members EXCEPT ![d][g] =
                                        @ \cup fut[d].members]
                /\ hooks_join_group' =
                      [hooks_join_group EXCEPT ![d][g] =
                          IF wpc[d].kind = "join" THEN @ + 1 ELSE @]
                /\ hooks_leave_group' =
                      [hooks_leave_group EXCEPT ![d][g] =
                          IF wpc[d].kind = "leave" THEN @ + 1 ELSE @]
                /\ regsince' = [regsince EXCEPT ![d][g] = TRUE]
    /\ regstable' = IF get(fut[d]) # None
                    THEN [regstable EXCEPT ![d][wpc[d].g] = FALSE]
                    ELSE regstable
    /\ wpc' = [wpc EXCEPT ![d] = NoCall]
    /\ fut' = [fut EXCEPT ![d] = NoOutcome]
    /\ wev' = NoWatchEvent
    /\ last' = NoOutcome
    /\ UNCHANGED <<queue, run, npolls, observed, polled>>
    /\ WatchCallFrame

\* run_watchers: self.get_groups(), then the caller blocks in
\* .get(timeout=timeout).
run_watchers(d) ==
    /\ wpc[d].pc = "none"
    /\ npolls < MaxPolls
    /\ Outstanding(d) < MaxQueue
    /\ _submit(d, Waited(Task("get_groups", None, NoCaps, None)))
    /\ npolls' = npolls + 1
    /\ wpc' = [wpc EXCEPT ![d] =
                  IF Submits(d) THEN Caller("groups", None, None, {})
                  ELSE NoCall]
    /\ wev' = NoWatchEvent
    /\ UNCHANGED <<group_members, hooks_join_group, hooks_leave_group, fut,
                   observed, polled, regsince, regstable, run>>
    /\ WatchCallFrame

\* The loop of run_watchers goes to its next group: self.get_members on it,
\* and the caller blocks on that future; with no group left the call
\* returns.  (The order of the loop is the order the store listed the
\* groups in.)
_run_watchers_next(d, todo) ==
    /\ todo # {} => Outstanding(d) < MaxQueue
    /\ IF todo = {}
       THEN /\ wpc' = [wpc EXCEPT ![d] = NoCall]
            /\ last' = NoOutcome
            /\ UNCHANGED queue
       ELSE \E g \in todo :
              /\ _submit(d, Waited(Task("get_members", g, NoCaps, None)))
              /\ wpc' = [wpc EXCEPT ![d] =
                            IF Submits(d)
                            THEN Caller("members", None, g, todo \ {g})
                            ELSE NoCall]
    /\ fut' = [fut EXCEPT ![d] = NoOutcome]
    /\ UNCHANGED <<hooks_join_group, hooks_leave_group, npolls, observed,
                   run>>
    /\ WatchCallFrame

\* run_watchers: self.get_groups().get(timeout=timeout) comes back.
run_watchers_groups(d) ==
    /\ wpc[d].pc = "groups"
    /\ fut[d] # NoOutcome
    /\ _run_watchers_next(d, BagToSet(fut[d].groups))
    /\ wev' = NoWatchEvent
    /\ UNCHANGED <<group_members, polled, regsince, regstable>>

\* What self._hooks_*_group[group_id].run(event) does for the events of the
\* ids in members: every registered callback is called once with each.
_hooks_run(hooks, members) ==
    [m \in Fields |-> IF m \in members THEN hooks ELSE 0]

\* A run_watchers that fires the callbacks but keeps the old snapshot.
run_watchers_keeps_snapshot(d) ==
    /\ wpc[d].pc = "members"
    /\ fut[d] # NoOutcome
    /\ LET group_id == wpc[d].g
           current == fut[d].members
           old_group_members == group_members[d][group_id]
       IN  IF get(fut[d]) # None
           THEN /\ wpc' = [wpc EXCEPT ![d] = NoCall]
                /\ fut' = [fut EXCEPT ![d] = NoOutcome]
                /\ wev' = NoWatchEvent
                /\ last' = NoOutcome
                /\ UNCHANGED <<group_members, hooks_join_group,
                               hooks_leave_group, npolls, observed, polled,
                               regsince, regstable, queue, run>>
                /\ WatchCallFrame
           ELSE /\ wev' = WatchEvent(d, group_id,
                             _hooks_run(hooks_join_group[d][group_id],
                                        current \ old_group_members),
                             _hooks_run(hooks_leave_group[d][group_id],
                                        old_group_members \ current),
                             IF regsince[d][group_id] THEN NotSeen
                             ELSE polled[d][group_id])
                /\ UNCHANGED group_members
                /\ polled' = [polled EXCEPT ![d][group_id] = observed[d]]
                /\ regsince' = [regsince EXCEPT ![d][group_id] = FALSE]
                /\ regstable' = [regstable EXCEPT ![d][group_id] = FALSE]
                /\ _run_watchers_next(d, wpc[d].todo)

\* run_watchers: self.get_members(group_id).get(timeout=timeout) comes back.
\* An exception ends the call; a result is diffed against the snapshot, the
\* join hooks run for current - old, the leave hooks for old - current, and
\* the snapshot is replaced.
run_watchers_members(d) ==
    /\ wpc[d].pc = "members"
    /\ fut[d] # NoOutcome
    /\ LET group_id == wpc[d].g
           current == fut[d].members
           old_group_members == group_members[d][group_id]
       IN  IF get(fut[d]) # None
           THEN /\ wpc' = [wpc EXCEPT ![d] = NoCall]
                /\ fut' = [fut EXCEPT ![d] = NoOutcome]
                /\ wev' = NoWatchEvent
                /\ last' = NoOutcome
                /\ UNCHANGED <<group_members, hooks_join_group,
                               hooks_leave_group, npolls, observed, polled,
                               regsince, regstable, queue, run>>
                /\ WatchCallFrame
           ELSE /\ wev' = WatchEvent(d, group_id,
                             _hooks_run(hooks_join_group[d][group_id],
                                        current \ old_group_members),
                             _hooks_run(hooks_leave_group[d][group_id],
                                        old_group_members \ current),
                             IF regsince[d][group_id] THEN NotSeen
                             ELSE polled[d][group_id])
                /\ group_members' =
                      [group_members EXCEPT ![d][group_id] = current]
                /\ polled' = [polled EXCEPT ![d][group_id] = observed[d]]
                /\ regsince' = [regsince EXCEPT ![d][group_id] = FALSE]
                /\ regstable' = [regstable EXCEPT ![d][group_id] = FALSE]
                /\ _run_watchers_next(d, wpc[d].todo)

\* run_watchers given a timeout: .get(timeout=timeout) gives up on a future
\* that is not finished, and OperationTimedOut ends the call.  The work is
\* not cancelled; its future is dropped.  (Whether the call was given a
\* timeout shows only here, so it is chosen here.)
run_watchers_timeout(d) ==
    /\ wpc[d].pc \in {"groups", "members"}
    /\ fut[d] = NoOutcome
    /\ wpc' = [wpc EXCEPT ![d] = NoCall]
    /\ queue' = [queue EXCEPT ![d] =
                    [i \in DOMAIN @ |-> [@[i] EXCEPT !.waited = FALSE]]]
    /\ run' = [run EXCEPT ![d].task.waited = FALSE]
    /\ wev' = NoWatchEvent
    /\ last' = NoOutcome
    /\ UNCHANGED <<group_members, hooks_join_group, hooks_leave_group, fut,
                   npolls, observed, polled, regsince, regstable>>
    /\ WatchCallFrame

\* ------------------------------------------------------ the async result
\* A group operation whose caller keeps the RedisFutureResult it returns,
\* to ask done() and get() of it later.
RedisFutureResult(d, t, encoded_member_id) ==
    /\ wpc[d].pc = "none"
    /\ Outstanding(d) < MaxQueue
    /\ nops' = nops + 1
    /\ IF encoded_member_id = "ValueError"
       THEN /\ last' = Raised(d, t, "ValueError")
            /\ UNCHANGED <<queue, wpc>>
       ELSE /\ _submit(d, Waited(t))
            /\ wpc' = [wpc EXCEPT ![d] =
                          IF Submits(d)
                          THEN Caller("future", t.op, t.g, {})
                          ELSE NoCall]
    /\ wev' = NoWatchEvent
    /\ UNCHANGED <<hashes, groups_reg, member_id, client, executor, started,
                   run, joined_groups, ghosts>>
    /\ UNCHANGED lvars
    /\ UNCHANGED <<group_members, hooks_join_group, hooks_leave_group, fut,
                   npolls, observed, polled, regsince, regstable, spc>>

join_group_result(d, group_id) ==
    /\ nops < MaxOps
    /\ RedisFutureResult(d, Task("join_group", group_id, "", member_id[d]),
                         _encode_member_id(member_id[d]))

leave_group_result(d, group_id) ==
    /\ nops < MaxOps
    /\ RedisFutureResult(d, Task("leave_group", group_id, NoCaps,
                                 member_id[d]),
                         _encode_member_id(member_id[d]))

\* RedisFutureResult.done: self._fut.done()
done(d) == fut[d] # NoOutcome

\* What a get() leaves alone.
GetFrame ==
    /\ wev' = NoWatchEvent
    /\ UNCHANGED <<hashes, groups_reg, member_id, client, executor, started,
                   joined_groups, nops, ghosts>>
    /\ UNCHANGED lvars
    /\ UNCHANGED <<group_members, hooks_join_group, hooks_leave_group,
                   npolls, observed, polled, regsince, regstable, spc>>

\* A get(timeout) that cancels the work it gave up waiting for.
RedisFutureResult_get_cancels(d) ==
    /\ wpc[d].pc \in {"future", "timed_out"}
    /\ IF fut[d] = NoOutcome
       THEN /\ last' = Raised(d, Task(wpc[d].kind, wpc[d].g, NoCaps, None),
                              get(Raised(d, NoTask, "futures.TimeoutError")))
            /\ wpc' = [wpc EXCEPT ![d].pc = "timed_out"]
            /\ queue' = [queue EXCEPT ![d] = SelectSeq(@, LAMBDA t : ~t.waited)]
            /\ UNCHANGED <<run, fut>>
       ELSE /\ last' = [fut[d] EXCEPT !.exc = get(fut[d])]
            /\ wpc' = [wpc EXCEPT ![d] = NoCall]
            /\ fut' = [fut EXCEPT ![d] = NoOutcome]
            /\ UNCHANGED <<queue, run>>
    /\ GetFrame

\* RedisFutureResult.get(timeout): self._fut.result(timeout=timeout) under
\* _translate_failures.  On a future that is not finished in time it raises
\* futures.TimeoutError, made OperationTimedOut, and the work stays where it
\* is; on a finished one it returns the result or raises the translated
\* exception (and the caller lets go of the result object).
RedisFutureResult_get(d) ==
    /\ wpc[d].pc \in {"future", "timed_out"}
    /\ IF fut[d] = NoOutcome
       THEN /\ last' = Raised(d, Task(wpc[d].kind, wpc[d].g, NoCaps, None),
                              get(Raised(d, NoTask, "futures.TimeoutError")))
            /\ wpc' = [wpc EXCEPT ![d].pc = "timed_out"]
            /\ UNCHANGED <<queue, run, fut>>
       ELSE /\ last' = [fut[d] EXCEPT !.exc = get(fut[d])]
            /\ wpc' = [wpc EXCEPT ![d] = NoCall]
            /\ fut' = [fut EXCEPT ![d] = NoOutcome]
            /\ UNCHANGED <<queue, run>>
    /\ GetFrame

\* ------------------------------------------------------- specification
Next ==
    \/ \E d \in Drivers, ping_ok \in BOOLEAN : start(d, ping_ok)
    \/ \E d \in Drivers, g \in Groups : create_group(d, g)
    \/ \E d \in Drivers, g \in Groups, c \in CapsIn :
          update_capabilities(d, g, c)
    \/ \E d \in Drivers, g \in Groups : leave_group(d, g)
    \/ \E d \in Drivers, g \in Groups : get_members(d, g)
    \/ \E d \in Drivers, g \in Groups, m \in Fields :
          get_member_capabilities(d, g, m)
    \/ \E d \in Drivers, g \in Groups, c \in CapsIn : join_group(d, g, c)
    \/ \E d \in Drivers : get_groups(d)
    \/ \E d \in Drivers : _create_group_exists(d)
    \/ \E d \in Drivers : _create_group_sadd(d)
    \/ \E d \in Drivers : _create_group_hset(d)
    \/ \E d \in Drivers : _update_capabilities_exists(d)
    \/ \E d \in Drivers : _update_capabilities_hexists(d)
    \/ \E d \in Drivers : _update_capabilities_hset(d)
    \/ \E d \in Drivers : _leave_group_exists(d)
    \/ \E d \in Drivers : _leave_group_hdel(d)
    \/ \E d \in Drivers : _get_members_exists(d)
    \/ \E d \in Drivers : _get_members_hkeys(d)
    \/ \E d \in Drivers : _get_member_capabilities_exists(d)
    \/ \E d \in Drivers : _get_member_capabilities_hget(d)
    \/ \E d \in Drivers : _join_group_exists(d)
    \/ \E d \in Drivers : _join_group_hset(d)
    \/ \E d \in Drivers : _get_groups(d)

Spec == Init /\ [][Next]_vars

\* The lock calls of the driver instances, with the store's lease clock.
NextLock ==
    \/ \E d \in Drivers : start(d, TRUE)
    \/ \E d \in Drivers, l \in LockObjs, n \in LockNames : get_lock(d, l, n)
    \/ \E l \in LockObjs, b \in {"True", "False", "timed"},
          store_ok \in BOOLEAN : acquire(l, b, store_ok)
    \/ \E l \in LockObjs, store_ok \in BOOLEAN, timed_out \in BOOLEAN :
          acquire_retry(l, store_ok, timed_out)
    \/ \E l \in LockObjs, store_ok \in BOOLEAN : release(l, store_ok)
    \/ \E l \in LockObjs, store_ok \in BOOLEAN :
          RedisLock_heartbeat(l, store_ok)
    \/ \E d \in Drivers, ping_ok \in BOOLEAN, failing \in SUBSET LockObjs :
          heartbeat(d, ping_ok, failing)
    \/ \E n \in LockKeys : LeaseAges(n)
    \/ \E n \in LockKeys : LeaseExpires(n)

\* No lock call reads a member id: one assignment of them is enough.
InitLock == Init /\ member_id = [d \in Drivers |-> "m1"]

SpecLock == InitLock /\ [][NextLock]_vars

\* The watcher calls, with the group operations that change a membership.
NextWatch ==
    \/ \E d \in Drivers : start(d, TRUE)
    \/ \E d \in Drivers, g \in Groups : create_group(d, g)
    \/ \E d \in Drivers, g \in Groups : join_group(d, g, "")
    \/ \E d \in Drivers, g \in Groups : leave_group(d, g)
    \/ \E d \in Watchers, g \in Groups : watch_join_group(d, g)
    \/ \E d \in Watchers, g \in Groups : watch_leave_group(d, g)
    \/ \E d \in Watchers : _init_watch_group_update(d)
    \/ \E d \in Watchers : run_watchers(d)
    \/ \E d \in Watchers : run_watchers_groups(d)
    \/ \E d \in Watchers : run_watchers_members(d)
    \/ \E d \in Watchers : run_watchers_timeout(d)
    \/ \E d \in Drivers : _create_group_exists(d)
    \/ \E d \in Drivers : _create_group_sadd(d)
    \/ \E d \in Drivers : _create_group_hset(d)
    \/ \E d \in Drivers : _leave_group_exists(d)
    \/ \E d \in Drivers : _leave_group_hdel(d)
    \/ \E d \in Drivers : _get_members_exists(d)
    \/ \E d \in Drivers : _get_members_hkeys(d)
    \/ \E d \in Drivers : _join_group_exists(d)
    \/ \E d \in Drivers : _join_group_hset(d)
    \/ \E d \in Drivers : _get_groups(d)

SpecWatch == Init /\ [][NextWatch]_vars

\* The life of one driver instance: start (again, too) and stop, its locks,
\* and the group operations its application calls meanwhile.
NextLife ==
    \/ \E d \in Lifers, ping_ok \in BOOLEAN : _start(d, ping_ok)
    \/ \E d \in Lifers : stop(d)
    \/ \E d \in Lifers : _stop_lock_pop(d)
    \/ \E d \in Lifers, store_ok \in BOOLEAN : _stop_lock_release(d, store_ok)
    \/ \E d \in Lifers : _stop_groups(d)
    \/ \E d \in Lifers : _stop_group_pop(d)
    \/ \E d \in Lifers, timed_out \in BOOLEAN : _stop_group_get(d, timed_out)
    \/ \E d \in Lifers : _stop_shutdown(d)
    \/ \E d \in Lifers : _stop_shutdown_wait(d)
    \/ \E d \in Lifers : _stop_client(d)
    \/ \E d \in Lifers : _stop_started(d)
    \/ \E d \in Lifers, g \in Groups : create_group(d, g)
    \/ \E d \in Lifers, g \in Groups : join_group(d, g, "")
    \/ \E d \in Lifers, g \in Groups : leave_group(d, g)
    \/ \E d \in Lifers, l \in LifeLocks, n \in LockNames : get_lock(d, l, n)
    \/ \E l \in LifeLocks : acquire(l, "False", TRUE)
    \/ \E l \in LifeLocks : release(l, TRUE)
    \/ \E d \in Lifers : \E w \in {d, Abandoned(d)} : _create_group_exists(w)
    \/ \E d \in Lifers : \E w \in {d, Abandoned(d)} : _create_group_sadd(w)
    \/ \E d \in Lifers : \E w \in {d, Abandoned(d)} : _create_group_hset(w)
    \/ \E d \in Lifers : \E w \in {d, Abandoned(d)} : _leave_group_exists(w)
    \/ \E d \in Lifers : \E w \in {d, Abandoned(d)} : _leave_group_hdel(w)
    \/ \E d \in Lifers : \E w \in {d, Abandoned(d)} : _join_group_exists(w)
    \/ \E d \in Lifers : \E w \in {d, Abandoned(d)} : _join_group_hset(w)

InitLife == Init /\ member_id = [d \in Drivers |-> "m1"]

SpecLife == InitLife /\ [][NextLife]_vars

\* A caller that keeps the results of its group operations: the steps of
\* the executor's worker,
WorkerNext(d) ==
    \/ _create_group_exists(d)
    \/ _create_group_sadd(d)
    \/ _create_group_hset(d)
    \/ _leave_group_exists(d)
    \/ _leave_group_hdel(d)
    \/ _join_group_exists(d)
    \/ _join_group_hset(d)

\* and the calls.
NextAsync ==
    \/ \E d \in Watchers : start(d, TRUE)
    \/ \E d \in Watchers, g \in Groups : create_group(d, g)
    \/ \E d \in Watchers, g \in Groups : join_group(d, g, "")
    \/ \E d \in Watchers, g \in Groups : join_group_result(d, g)
    \/ \E d \in Watchers, g \in Groups : leave_group_result(d, g)
    \/ \E d \in Watchers : RedisFutureResult_get(d)
    \/ \E d \in Watchers : WorkerNext(d)

InitAsync == Init /\ member_id = [d \in Drivers |-> "m1"]

\* The worker thread of the executor runs as long as it has work.
SpecAsync ==
    InitAsync /\ [][NextAsync]_vars
       /\ \A d \in Watchers : WF_vars(WorkerNext(d))

\* ----------------------------------------------------------------- claims
\* The future whose completion the step just taken made visible.
Done(op) == last.submitted /\ last.task.op = op
\* In an action: driver d's worker took the step.
WorkerStep(d) == run'[d] # run[d]
Key(g) == _encode_group_id(g)
StoreMembers(g) == {m \in MemberIds : hexists(Key(g), m)}

NeedGroupOps == {"get_members", "join_group", "leave_group",
                 "update_capabilities", "get_member_capabilities"}

\* C1: on a group that no create_group ever created, get_members,
\* join_group, leave_group, update_capabilities and get_member_capabilities
\* fail with GroupNotCreated when the result is retrieved; none of them gets
\* past its existence check, and the step that fails it changes neither the
\* group hash, nor the registry, nor any driver's joined-groups set.
C1_NotCreatedFails ==
    /\ [](\A d \in Drivers :
            (run[d].pc # "idle" /\ run[d].task.op \in NeedGroupOps)
               => createdOk[run[d].task.g] > 0)
    /\ []((last.submitted /\ last.task.op \in NeedGroupOps
              /\ createdOk[last.task.g] = 0)
            => get(last) = "GroupNotCreated")
    /\ [][(last'.submitted /\ last'.task.op \in NeedGroupOps
              /\ createdOk'[last'.task.g] = 0)
            => UNCHANGED <<hashes, groups_reg, joined_groups>>]_vars

C1_Witness ==
    /\ Done("join_group")
    /\ started[last.d]
    /\ createdOk[last.task.g] = 0
    /\ get(last) = "GroupNotCreated"

\* C2 (as claimed): a member's second join_group fails, and while the member
\* is joined the stored capabilities are those of its last successful
\* join_group or update_capabilities.
C2_FailedJoinKeepsCaps ==
    \A g \in Groups, m \in MemberIds :
        /\ joinedOk[g][m] <= 1
        /\ joinedOk[g][m] = 1 => _loads(hget(Key(g), m)) = capsOk[g][m]

\* C3: a create_group that the worker takes up when the group has already
\* been created fails with GroupAlreadyExist and changes nothing in the
\* store; once some create_group(g) has succeeded the registry holds g
\* exactly once, and so does every get_groups() result, however many more
\* create_group(g) attempts succeed or fail.
C3_CreateTwice ==
    /\ [](\A g \in Groups : createdOk[g] > 0 => CopiesIn(g, groups_reg) = 1)
    /\ [](Done("get_groups")
            => /\ get(last) = None
               /\ \A g \in Groups :
                     createdOk[g] > 0 => CopiesIn(g, last.groups) = 1)
    /\ [][\A d \in Drivers :
            (Begins(d, "create_group") /\ createdOk[Head(queue[d]).g] > 0
                /\ Len(queue'[d]) < Len(queue[d]))
               => /\ last'.d = d /\ get(last') = "GroupAlreadyExist"
                  /\ UNCHANGED <<hashes, groups_reg>>]_vars

C3_Witness ==
    /\ Done("create_group")
    /\ get(last) = "GroupAlreadyExist"
    /\ createdOk[last.task.g] = 1
    /\ CopiesIn(last.task.g, groups_reg) = 1

\* C4 (as claimed): of the create_group calls on one group, whatever the
\* interleaving of their store commands, exactly one succeeds and every
\* other one fails with GroupAlreadyExist.
C4_OneCreatorWins ==
    /\ \A g \in Groups : createdOk[g] <= 1
    /\ Done("create_group") => get(last) \in {None, "GroupAlreadyExist"}

\* C5: of the join_group calls for one member id on one group, at most one
\* succeeds until a leave_group removes the entry again: a join whose HSET
\* finds no entry succeeds, a join whose HSET finds the entry fails with
\* MemberAlreadyExist, whichever driver instance issued it and however the
\* store commands interleave; while a join stands, the entry is there.
C5_OneJoinerWins ==
    /\ [](\A g \in Groups, m \in MemberIds :
            /\ joinedOk[g][m] <= 1
            /\ joinedOk[g][m] = 1 => hexists(Key(g), m))
    /\ [][\A d \in Drivers :
            (Continues(d, "join_group", "hset") /\ WorkerStep(d))
               => /\ last'.d = d /\ last'.task = run[d].task
                  /\ IF hexists(Key(run[d].task.g), run[d].task.m)
                     THEN get(last') = "MemberAlreadyExist"
                     ELSE get(last') = None]_vars

C5_Witness ==
    /\ Done("join_group")
    /\ get(last) = "MemberAlreadyExist"
    /\ \E d \in Drivers \ {last.d} :
          /\ member_id[d] = last.task.m
          /\ last.task.g \in joined_groups[d]
    /\ last.task.g \notin joined_groups[last.d]

\* C6: once a create_group(g) has succeeded the existence sentinel stays in
\* g's hash for good; a get_members(g) result is then never GroupNotCreated,
\* it is exactly the member ids that have an entry in the hash, which
\* include every member whose join stands and only members that joined at
\* some time, and never the sentinel.
C6_CreatedStaysCreated ==
    /\ \A g \in Groups : createdOk[g] > 0 => hexists(Key(g), _GROUP_EXISTS)
    /\ (Done("get_members") /\ createdOk[last.task.g] > 0)
          => /\ get(last) = None
             /\ last.members = StoreMembers(last.task.g)
             /\ {m \in MemberIds : joinedOk[last.task.g][m] > 0}
                   \subseteq last.members
             /\ last.members \subseteq everJoined[last.task.g]
             /\ _GROUP_EXISTS \notin last.members

C6_Witness ==
    /\ Done("get_members")
    /\ get(last) = None
    /\ last.members = {}
    /\ everJoined[last.task.g] # {}

\* C7: when a leave_group succeeds, the member's entry is gone from the
\* group and the group is gone from the leaving driver's joined-groups set;
\* a leave_group whose HDEL finds no entry fails with MemberNotJoined, and
\* that step changes neither the store nor any joined-groups set.
C7_LeaveTwice ==
    /\ []((Done("leave_group") /\ get(last) = None)
            => /\ last.task.m \notin StoreMembers(last.task.g)
               /\ last.task.g \notin joined_groups[last.d])
    /\ [][\A d \in Drivers :
            (Continues(d, "leave_group", "hdel") /\ WorkerStep(d)
                /\ run[d].task.m \notin StoreMembers(run[d].task.g))
               => /\ last'.d = d /\ get(last') = "MemberNotJoined"
                  /\ UNCHANGED <<hashes, groups_reg, joined_groups>>]_vars

C7_Witness ==
    /\ Done("leave_group")
    /\ get(last) = "MemberNotJoined"
    /\ last.task.m \in everJoined[last.task.g]
    /\ \A d \in Drivers \ {last.d} : member_id[d] # last.task.m
    /\ last.task.g \notin joined_groups[last.d]

\* In an action: the call on a lock object that the step just taken made.
LockCall(l, op) == lockev'.l = l /\ lockev'.op = op
HeldByOther(l) == leases[lock_name[l]].token \notin {None, l}
Holders(n) == {l \in LockObjs : lock_name[l] = n /\ holds[l]}

\* C8: release() on a lock whose held flag is false returns false and sends
\* the store nothing; a release that the store answers returns true exactly
\* when the store confirms it (the key holds this lock's token), and
\* then the flag is cleared, the lock leaves the held-lock set and the lease
\* is gone; when the store answers that the lease is not this lock's, the
\* release returns false, raises nothing and leaves the flag and the
\* held-lock set as they were; and a heartbeat, of the driver or of the lock,
\* asks the store to extend only locks whose flag is set (and, for the
\* driver's, that are in its held-lock set), so none that a release has
\* given up and no acquire has taken again.
C8_Release ==
    /\ [][\A l \in LockObjs :
            LockCall(l, "release") =>
               /\ ~lock_acquired[l] =>
                     /\ lockev'.ret = "False" /\ lockev'.cmds = {}
                     /\ UNCHANGED <<leases, lock_acquired, acquired_locks>>
               /\ lockev'.ret # "ToozConnectionError" =>
                     (lockev'.ret = "True" <=>
                        /\ lock_acquired[l] /\ lock_token[l] # None
                        /\ leases[lock_name[l]].token = lock_token[l]
                        /\ lockev'.cmds # {})
               /\ lockev'.ret = "True" =>
                     /\ ~lock_acquired'[l]
                     /\ l \notin acquired_locks'[lock_coord[l]]
                     /\ leases'[lock_name[l]] = NoLease
                     /\ ~holds'[l]
               /\ (lock_acquired[l] /\ lockev'.cmds # {}
                     /\ leases[lock_name[l]].token # lock_token[l]
                     /\ lockev'.ret # "ToozConnectionError")
                    => /\ lockev'.ret = "False"
                       /\ UNCHANGED <<lock_acquired, acquired_locks,
                                      leases>>]_vars
    /\ [][\A l \in LockObjs :
            /\ l \in hbev'.asked =>
                  lock_acquired[l] /\ holds[l] /\ l \in acquired_locks[hbev'.d]
            /\ (LockCall(l, "heartbeat") /\ lockev'.cmds # {}) =>
                  lock_acquired[l] /\ holds[l]]_vars

C8_Witness ==
    /\ lockev.op = "release"
    /\ lockev.ret = "False"
    /\ lockev.cmds # {}
    /\ lock_acquired[lockev.l]
    /\ lockev.l \in acquired_locks[lock_coord[lockev.l]]

\* C9: acquire(blocking=False) on a name whose lease another lock object
\* holds returns false (when the store answers at all) without sleeping and
\* leaves the held-lock sets alone; acquire(blocking=True) that finds the
\* name free returns true and puts the lock into its driver's held-lock set;
\* and as long as no lease on a name has expired, at most one lock object of
\* that name has had acquire return true with no release returning true
\* since.
C9_Acquire ==
    /\ [][\A l \in LockObjs :
            LockCall(l, "acquire") =>
               /\ (lockev'.arg = "False" /\ HeldByOther(l)
                     /\ lockev'.ret # "ToozConnectionError")
                    => /\ lockev'.ret = "False"
                       /\ ~lockev'.slept
                       /\ UNCHANGED <<acquired_locks, leases>>
               /\ (lockev'.arg = "True" /\ ~lockev'.slept
                     /\ leases[lock_name[l]].token = None
                     /\ lockev'.ret # "ToozConnectionError")
                    => /\ lockev'.ret = "True"
                       /\ l \in acquired_locks'[lock_coord[l]]
                       /\ lock_acquired'[l]]_vars
    /\ [](\A n \in LockKeys :
            ~everExpired[n] => Cardinality(Holders(n)) <= 1)

C9_Witness ==
    /\ lockev.op = "acquire"
    /\ lockev.arg = "False"
    /\ lockev.ret = "False"
    /\ ~everExpired[lock_name[lockev.l]]
    /\ \E o \in LockObjs \ {lockev.l} :
          /\ lock_name[o] = lock_name[lockev.l]
          /\ holds[o] /\ o \in acquired_locks[lock_coord[o]]
    /\ lockev.l \notin acquired_locks[lock_coord[lockev.l]]

\* In a state: the step just taken was driver d's run_watchers finishing its
\* poll of group g, a poll of g by d came before it, and no watch_*_group
\* registration of d on g came between the two.
SecondPoll(d, g) == wev.d = d /\ wev.g = g /\ wev.prev.valid

\* C10: when run_watchers polls a group that its driver polled before, with
\* no watcher registration in between, every registered join callback is
\* invoked exactly once for each member id that is in the group at this poll
\* and was not at the previous one, every registered leave callback exactly
\* once for each id that was in the group at the previous poll and is not
\* now, and no callback is invoked for any other id: none at all when the
\* membership is the same at both polls, and none for a member that joined
\* and left between them.
C10_PollDiff ==
    \A d \in Drivers, g \in Groups :
       SecondPoll(d, g) =>
          LET prev == wev.prev
              cur == polled[d][g]
          IN  /\ cur.valid
              /\ \A m \in Fields :
                    /\ wev.joined[m] =
                          IF m \in cur.members \ prev.members
                          THEN hooks_join_group[d][g] ELSE 0
                    /\ wev.left[m] =
                          IF m \in prev.members \ cur.members
                          THEN hooks_leave_group[d][g] ELSE 0
              /\ cur.members = prev.members =>
                    wev.joined = NoCallbacks /\ wev.left = NoCallbacks
              /\ \A m \in (cur.ever \ prev.ever) \ cur.members :
                    wev.joined[m] = 0 /\ wev.left[m] = 0

\* A second poll that found a new member and called the join callback once.
C10_Witness ==
    \E d \in Drivers, g \in Groups, m \in MemberIds :
       /\ SecondPoll(d, g)
       /\ hooks_join_group[d][g] = 1
       /\ m \in polled[d][g].members \ wev.prev.members
       /\ wev.joined[m] = 1

\* A second poll that found a member gone and called the leave callback.
C10_SeesLeave ==
    \E d \in Drivers, g \in Groups, m \in MemberIds :
       /\ SecondPoll(d, g)
       /\ hooks_leave_group[d][g] = 1
       /\ m \in wev.prev.members \ polled[d][g].members
       /\ wev.left[m] = 1

\* A second poll, callbacks registered, that found the membership as it was
\* and called nothing.
C10_SeesNoChange ==
    \E d \in Drivers, g \in Groups :
       /\ SecondPoll(d, g)
       /\ hooks_join_group[d][g] = 1 /\ hooks_leave_group[d][g] = 1
       /\ polled[d][g].members = wev.prev.members
       /\ polled[d][g].members # {}
       /\ wev.joined = NoCallbacks /\ wev.left = NoCallbacks

\* A second poll, callbacks registered, after a member joined and left
\* between the two polls: nothing is called.
C10_MissesJoinAndLeave ==
    \E d \in Drivers, g \in Groups, m \in MemberIds :
       /\ SecondPoll(d, g)
       /\ hooks_join_group[d][g] = 1
       /\ m \in polled[d][g].ever \ wev.prev.ever
       /\ m \notin polled[d][g].members
       /\ wev.joined = NoCallbacks /\ wev.left = NoCallbacks

\* C13: a driver heartbeat whose ping answers does not fail, and it attempts
\* to renew the lease of every lock in the held-lock set: each of them is
\* either extended or reported as failing, whatever happened to the others;
\* a heartbeat fails only when its ping fails, with ToozConnectionError.
C13_HeartbeatRenewsAll ==
    hbev.d # None =>
       IF hbev.exc # None
       THEN hbev.exc = "ToozConnectionError" /\ hbev.extended = {}
       ELSE \A l \in acquired_locks[hbev.d] :
               l \in hbev.extended \cup hbev.warned

\* C18: a lock object is in its driver's held-lock set exactly when its
\* local held flag is true.
C18_HeldSetIffFlag ==
    \A l \in LockObjs :
       lock_coord[l] # None =>
          (l \in acquired_locks[lock_coord[l]] <=> lock_acquired[l])

\* The driver has a snapshot for the group: a watch_*_group registration or
\* a poll of run_watchers has stored one.
HasSnapshot(d, g) ==
    \/ hooks_join_group[d][g] + hooks_leave_group[d][g] > 0
    \/ polled[d][g].valid

\* C16: a group's membership snapshot is written only by the first watcher
\* registration for that group and by run_watchers' poll of it; a further
\* watch_join_group or watch_leave_group on a group that has a snapshot
\* leaves the snapshot as it was.
C16_SnapshotWriters ==
    [][\A d \in Drivers, g \in Groups :
          group_members'[d][g] # group_members[d][g] =>
             \/ wev'.d = d /\ wev'.g = g
             \/ wpc[d].pc = "init_watch" /\ wpc[d].g = g
                   /\ ~HasSnapshot(d, g)]_vars

\* C19: every group id in the registry has its existence sentinel, so the
\* get_members that run_watchers calls on an id returned by get_groups never
\* fails with GroupNotCreated.
C19_RegisteredIsCreated ==
    /\ \A g \in Groups :
          BagIn(g, groups_reg) => hexists(Key(g), _GROUP_EXISTS)
    /\ \A d \in Drivers :
          (wpc[d].pc = "members" /\ fut[d] # NoOutcome) =>
             get(fut[d]) # "GroupNotCreated"

\* C11: stop() releases the held locks before it leaves any group, leaves the
\* groups before it shuts the queue, shuts the queue once the work in flight
\* has run and only then drops the client and marks the driver stopped; no
\* stop() ends before that last step, whatever happened to one lock or one
\* group on the way; and stop() on a stopped driver raises nothing and
\* changes neither the queue, the client nor the started flag.
C11_StopCleansUp ==
    [][\A d \in Drivers :
          /\ (spc[d].pc = "lock_release" /\ spc'[d].pc # "lock_release")
                => spc[d].left = {} /\ executor'[d] = executor[d]
          /\ spc'[d].left # spc[d].left => executor[d] # "shutdown"
          /\ (executor[d] # None /\ executor'[d] = None)
                => Outstanding(d) = 0
          /\ (client[d] # None /\ client'[d] = None) => executor[d] = None
          /\ (started[d] /\ ~started'[d]) => client[d] = None
          /\ (spc[d].pc # "none" /\ spc'[d].pc = "none")
                => /\ spc[d].pc = "started"
                   /\ ~started'[d]
                   /\ executor'[d] = None
                   /\ client'[d] = None
          /\ (spc[d].stopped /\ spc'[d] # spc[d])
                => /\ executor'[d] = None
                   /\ client'[d] = None
                   /\ ~started'[d]
                   /\ queue'[d] = queue[d]
                   /\ last'.exc = None]_vars


\* C12: a group operation invoked on a driver that is not started, or whose
\* queue is shut down or gone, enqueues nothing and fails with ToozError,
\* never with another kind of error.
C12_StoppedRefusesWork ==
    [][nops' # nops =>
          \A d \in Drivers :
             (~started[d] \/ executor[d] # "executor")
                => /\ queue'[d] = queue[d]
                   /\ last'.d = d => last'.exc = "ToozError"]_vars


\* C15: while heartbeat() traverses the held-lock set, or stop() drains the
\* held-lock set or the joined-groups set, nothing else adds to or removes
\* from that set: in the middle of stop()'s draining of a set, the set changes
\* by stop()'s own pop only.
C15_SetsExclusive ==
    [][\A d \in Drivers :
          /\ (spc[d].pc \in {"lock_pop", "lock_release"}
                /\ acquired_locks'[d] # acquired_locks[d])
                => /\ spc[d].pc = "lock_pop"
                   /\ spc'[d].pc = "lock_release"
                   /\ acquired_locks'[d] = acquired_locks[d] \ {spc'[d].item}
          /\ (spc[d].pc \in {"group_pop", "group_get"}
                /\ joined_groups'[d] # joined_groups[d])
                => /\ spc[d].pc = "group_pop"
                   /\ spc'[d].left # spc[d].left
                   /\ joined_groups'[d] = joined_groups[d] \ {spc'[d].item}]_vars


\* C17: at most one unit of work of a driver executes at a time, and the
\* work executes in the order of its submission: no work of the driver is
\* begun while work submitted before it is still queued or executing.
C17_OneAtATimeInOrder ==
    /\ \A d \in Drivers :
          ~(run[d].pc # "idle" /\ run[Abandoned(d)].pc # "idle")
    /\ \A d \in Drivers :
          run[d].pc # "idle" => Outstanding(Abandoned(d)) = 0


\* C20: when stop() returns (the store reachable throughout), the joined
\* groups set and the held-lock set of the driver are empty and the store
\* holds no member entry of the driver's member id in any group.
C20_StopLeavesNothing ==
    [][\A d \in Drivers :
          (spc[d].pc = "started" /\ spc'[d].pc = "none")
             => /\ joined_groups'[d] = {}
                /\ \A g \in Groups : ~hexists(Key(g), member_id[d])]_vars


\* The caller of driver d holds a result object.
Kept(d) == wpc[d].pc \in {"future", "timed_out"}
\* The work whose result is awaited is still queued or executing.
Unfinished(d) ==
    \E w \in {d, Abandoned(d)} :
       \/ run[w].task.waited
       \/ \E i \in DOMAIN queue[w] : queue[w][i].waited

\* C14: done() is false while the work is queued or executing and true from
\* its end on; get(timeout) on unfinished work raises OperationTimedOut and
\* cancels nothing: the work stays queued or executing, it does run to its
\* end, and a join that succeeds then is in the store and in the joined
\* groups set.
C14_AsyncResult ==
    /\ [](\A d \in Watchers : Kept(d) => (done(d) <=> ~Unfinished(d)))
    /\ [][\A d \in Watchers :
             /\ (Kept(d) /\ done(d) /\ wpc'[d] = wpc[d]) => fut'[d] = fut[d]
             /\ (RedisFutureResult_get(d) /\ ~done(d))
                   => /\ last'.exc = "OperationTimedOut"
                      /\ wpc'[d].pc = "timed_out"
                      /\ queue' = queue /\ run' = run
             /\ (wpc[d].pc = "timed_out" /\ ~done(d) /\ fut'[d] # NoOutcome
                    /\ fut'[d].task.op = "join_group" /\ fut'[d].exc = None)
                   => /\ wpc[d].g \in joined_groups'[d]
                      /\ hashes'[Key(wpc[d].g)][member_id[d]] # NoneBlob]_vars
    /\ \A d \in Watchers : (wpc[d].pc = "timed_out") ~> done(d)

\* A join whose get() timed out has finished since, and took effect.
C14_Witness ==
    /\ wpc["d1"].pc = "timed_out"
    /\ done("d1")
    /\ fut["d1"].task.op = "join_group"
    /\ fut["d1"].exc = None
    /\ "g1" \in joined_groups["d1"]
    /\ hexists(Key("g1"), member_id["d1"])


\* C21: when no member joins or leaves group g between a watch_join_group or
\* watch_leave_group registration of a driver on g and the driver's next
\* run_watchers(), that run_watchers() invokes no callback for g, neither a
\* join nor a leave callback, whatever came before the registration.
C21_NoPhantomCallbacks ==
    [][\A d \in Drivers, g \in Groups :
          (regstable[d][g] /\ wev'.d = d /\ wev'.g = g)
             => wev'.joined = NoCallbacks /\ wev'.left = NoCallbacks]_vars

====
